---- MODULE Spec2Model ----
(***************************************************************************)
(* Control plane of the metrics agent: the clustered config watcher        *)
(* (configWatcher: run loop, refresh, handleEvents, Stop) and the          *)
(* per-instance supervisor (Agent.spawnInstance).                          *)
(***************************************************************************)
EXTENDS Integers, Sequences, FiniteSets, TLC

\* ------------------------------------------------------------------------
\* Bounds of the model
\* ------------------------------------------------------------------------
MaxBatch == 2        \* longest watch batch delivered by store.Watch()
MaxInterval == 1     \* largest ReshardInterval, in clock ticks
MaxReq == 2          \* the count of coalesced RequestRefresh calls saturates here
MaxRuns == 4         \* the supervisor's Run invocations that are followed
MaxStatic == 2       \* longest static config list handed to newAgent

\* ------------------------------------------------------------------------
\* Program constants and value spaces
\* ------------------------------------------------------------------------
RefreshChCap == 1    \* make(chan struct{}, 1)

Keys == {"k1", "k2"}            \* config keys of the store
ExtKey == "ext"                 \* an instance the manager hosts for another client
Names == Keys \cup {ExtKey}
Nil == "nil"                    \* the nil *instance.Config
Bodies == {"good", "bad"}       \* config contents; validate rejects "bad"

Events == [Key : Keys, Config : Bodies \cup {Nil}]
ZeroEvent == [Key |-> "", Config |-> Nil]      \* configstore.WatchEvent{}

OwnsResults == [owned : BOOLEAN, err : BOOLEAN]   \* (bool, error) of OwnershipFunc

FailSets == SUBSET Keys         \* the names for which a manager call reports a failure

Configs == [Enabled : BOOLEAN, ReshardInterval : 0..MaxInterval, ReshardTimeout : 0..1]

VARIABLES
    cfg,            \* w.cfg
    stopped,        \* w.stopped; w.stop() is called with it, so ctx.Done() of run = stopped
    refreshCh,      \* len(w.refreshCh)
    instances,      \* w.instances (key set of the map)
    im,             \* instance.Manager: name -> intended config, or Nil
    store,          \* configstore: key -> config, or Nil
    ring,           \* cluster view behind w.owns: key -> (bool, error)
    pc,             \* position of the run goroutine
    elapsed,        \* time.Since(lastReshard), saturating at MaxInterval
    rf,             \* locals of the refresh in progress
    last,           \* what the last watcher operation did (observation)
    pendingReqs,    \* RequestRefresh calls since the ticket was last consumed (observation)
    sup,            \* per instance name: its supervisor (Agent.spawnInstance), its counter
    agent,          \* the Agent facade: newAgent and Agent.Stop
    lk              \* w.mut and w.instanceMut (their holders), the locals of the
                    \* handleEvents and of the Stop in progress

wvars == <<cfg, stopped, refreshCh, instances, im, store, ring, pc, elapsed, rf,
           last, pendingReqs>>
vars == <<cfg, stopped, refreshCh, instances, im, store, ring, pc, elapsed, rf,
          last, pendingReqs, sup, agent, lk>>

\* ------------------------------------------------------------------------
\* Helpers
\* ------------------------------------------------------------------------
Min(a, b) == IF a < b THEN a ELSE b

RECURSIVE SeqsUpTo(_, _)
SeqsUpTo(S, n) ==
    IF n = 0 THEN {<<>>}
    ELSE LET shorter == SeqsUpTo(S, n - 1)
         IN shorter \cup {Append(s, x) : s \in {t \in shorter : Len(t) = n - 1}, x \in S}

\* every ordering of a finite set (the iteration order of a Go map)
RECURSIVE Orders(_)
Orders(S) ==
    IF S = {} THEN {<<>>}
    ELSE UNION {{<<x>> \o s : s \in Orders(S \ {x})} : x \in S}

\* every way to cut a sequence into consecutive non-empty chunks
RECURSIVE Chunkings(_)
Chunkings(s) ==
    IF s = <<>> THEN {<<>>}
    ELSE UNION {{<<SubSeq(s, 1, i)>> \o c : c \in Chunkings(SubSeq(s, i + 1, Len(s)))}
                : i \in 1..Len(s)}

Range(s) == {s[i] : i \in 1..Len(s)}

\* ------------------------------------------------------------------------
\* Collaborators
\* ------------------------------------------------------------------------
\* ValidationFunc: nil error iff the config respects the global constraints
Validate(body) == body # "bad"

\* instance.Manager.DeleteConfig; fail = the names whose manager call fails
DeleteConfig(m, key, fail) ==
    IF key \in fail THEN [im |-> m, err |-> TRUE]
    ELSE [im |-> [m EXCEPT ![key] = Nil], err |-> FALSE]

\* instance.Manager.ApplyConfigs: upsert in order; (err, applied, failed)
RECURSIVE ApplyConfigs(_, _, _)
ApplyConfigs(m, cfgs, fail) ==
    IF cfgs = <<>> THEN [im |-> m, err |-> FALSE, applied |-> <<>>, failed |-> <<>>]
    ELSE LET c == Head(cfgs)
             rejected == c.Key \in fail
             rest == ApplyConfigs(IF rejected THEN m ELSE [m EXCEPT ![c.Key] = c.Config],
                                  Tail(cfgs), fail)
         IN [im |-> rest.im,
             err |-> rejected \/ rest.err,
             applied |-> IF rejected THEN rest.applied ELSE <<c>> \o rest.applied,
             failed |-> IF rejected THEN <<c>> \o rest.failed ELSE rest.failed]

\* the filter refresh hands to store.All: an owns error is "not owned"
RefreshFilter(orc, key) == IF orc[key].err THEN FALSE ELSE orc[key].owned

\* configstore.Store.All: the keys of the snapshot that pass the filter
StoreAll(st, orc) == {k \in Keys : st[k] # Nil /\ RefreshFilter(orc, k)}

\* ------------------------------------------------------------------------
\* configWatcher.handleEvents
\* ------------------------------------------------------------------------
\* variant: the delete case for a change of owner only
IsDeleteCaseMoved(isRunning, isDeleted, owned) == isRunning /\ ~owned

\* case (isRunning && !owned) || (isDeleted && isRunning)
IsDeleteCase(isRunning, isDeleted, owned) ==
    (isRunning /\ ~owned) \/ (isDeleted /\ isRunning)

\* variant: the apply case without the isDeleted test
IsApplyCaseAnyOwned(isDeleted, owned) == owned

\* case !isDeleted && owned
IsApplyCase(isDeleted, owned) == ~isDeleted /\ owned

DeleteCall(key) == [op |-> "DeleteConfig", key |-> key, cfgs |-> <<>>]
ApplyCall(cfgs) == [op |-> "ApplyConfigs", key |-> "", cfgs |-> cfgs]

\* the body of `for _, ev := range evs` for one event
HandleOne(st, ev, orc, fail) ==
    LET owned == orc[ev.Key].owned     \* owned, err := w.owns(ev.Key); err is only logged
        isRunning == ev.Key \in st.inst
        isDeleted == ev.Config = Nil
    IN  IF IsDeleteCase(isRunning, isDeleted, owned) THEN
            LET d == DeleteConfig(st.im, ev.Key, fail)
            IN [st EXCEPT !.im = d.im,
                          !.inst = @ \ {ev.Key},
                          !.calls = Append(@, DeleteCall(ev.Key)),
                          !.failed = IF d.err THEN Append(@, ev) ELSE @,
                          !.ok = IF d.err THEN @ ELSE Append(@, ev)]
        ELSE IF IsApplyCase(isDeleted, owned) THEN
            [st EXCEPT !.failed = IF Validate(ev.Config) THEN @ ELSE Append(@, ev),
                       !.owned = Append(@, ev),
                       !.inst = @ \cup {ev.Key}]
        ELSE st

RECURSIVE Classify(_, _, _, _)
Classify(evs, st, orc, fail) ==
    IF evs = <<>> THEN st
    ELSE Classify(Tail(evs), HandleOne(st, Head(evs), orc, fail), orc, fail)

\* handleEvents(evs) on watcher state (isStopped, inst) and manager m
HandleEvents(evs, isStopped, inst, m, orc, fail) ==
    IF isStopped THEN
        [err |-> TRUE, inst |-> inst, im |-> m, calls |-> <<>>, owned |-> <<>>,
         ok |-> <<>>, failed |-> evs]
    ELSE
        LET c == Classify(evs, [inst |-> inst, im |-> m, calls |-> <<>>, owned |-> <<>>,
                                ok |-> <<>>, failed |-> <<>>], orc, fail)
            a == ApplyConfigs(c.im, c.owned, fail)
            \* evConfigMap[&v]: &v is the address of the loop variable, never a key of
            \* the map, so the lookup yields the zero WatchEvent
        IN [err |-> a.err, inst |-> c.inst, im |-> a.im,
            calls |-> Append(c.calls, ApplyCall(c.owned)), owned |-> c.owned,
            ok |-> c.ok \o [i \in 1..Len(a.applied) |-> ZeroEvent],
            failed |-> c.failed \o [i \in 1..Len(a.failed) |-> ZeroEvent]]

\* observation of an operation: its batch, its manager calls, its result
Observed(act, evs, r, fail) ==
    [act |-> act, evs |-> evs, calls |-> r.calls, failed |-> r.failed, err |-> r.err,
     fail |-> fail, stable |-> TRUE, at |-> "", acted |-> FALSE, obs |-> <<>>]
Quiet(act, err) ==
    [act |-> act, evs |-> <<>>, calls |-> <<>>, failed |-> <<>>, err |-> err,
     fail |-> {}, stable |-> TRUE, at |-> "", acted |-> FALSE, obs |-> <<>>]

\* ------------------------------------------------------------------------
\* configWatcher: construction
\* ------------------------------------------------------------------------
RfIdle == [hasDeadline |-> FALSE, expired |-> FALSE, stable |-> TRUE, acted |-> FALSE,
           batches |-> <<>>, keys |-> {}, deleted |-> <<>>, snap |-> {}]

SupNames == {"a", "b"}          \* names of the supervised instances

SupIdle == [pc |-> "idle", canceled |-> FALSE, exits |-> 0, runs |-> 0,
            ret |-> "none", counted |-> 0]

\* the static part of prometheus.Config handed to newAgent
StaticCfgs == [Name : SupNames, Valid : BOOLEAN]
AgentInputs == [WALDir : {"", "/wal"}, Enabled : BOOLEAN,
                Configs : SeqsUpTo(StaticCfgs, MaxStatic)]

AgentIdle == [pc |-> "init",
              in |-> [WALDir |-> "", Enabled |-> FALSE, Configs |-> <<>>],
              err |-> "none", cm |-> "none", applied |-> <<>>, ha |-> "none",
              log |-> <<>>]

\* no handleEvents and no Stop in progress, both mutexes free
HeIdle == [evs |-> <<>>, own |-> [owned |-> FALSE, err |-> FALSE], owned |-> <<>>,
           fail |-> {}, ret |-> "loop"]
StIdle == [pc |-> "idle", keys |-> <<>>, fail |-> {}]
LkIdle == [mut |-> "none", instanceMut |-> "none", he |-> HeIdle, st |-> StIdle]

InitWatcher ==
    /\ cfg \in Configs
    /\ stopped = FALSE
    /\ refreshCh = 0
    /\ instances = {}
    /\ im = [n \in Names |-> IF n = ExtKey THEN "good" ELSE Nil]
    /\ store = [k \in Keys |-> Nil]
    /\ ring = [k \in Keys |-> [owned |-> FALSE, err |-> FALSE]]
    /\ pc = "select"
    /\ elapsed = 0
    /\ rf = RfIdle
    /\ last = Quiet("new", FALSE)
    /\ pendingReqs = 0

Init ==
    /\ InitWatcher /\ sup = [n \in SupNames |-> SupIdle] /\ agent = AgentIdle
    /\ lk = LkIdle


\* ------------------------------------------------------------------------
\* configWatcher: operations called from outside the run loop
\* ------------------------------------------------------------------------
InRefresh == pc \in {"rf_all", "rf_drain", "rf_synth"}

\* ApplyConfig: CompareYAML on equal configs returns before the stopped check
ApplyConfig(c) ==
    /\ cfg' = IF c = cfg \/ stopped THEN cfg ELSE c
    /\ last' = Quiet("applyConfig", c # cfg /\ stopped)
    /\ UNCHANGED <<stopped, refreshCh, instances, im, store, ring, pc, elapsed, rf,
                   pendingReqs, sup, agent, lk>>

\* variant: a send that always enqueues
RequestRefreshChAlways(ch) == ch + 1

\* select { case w.refreshCh <- struct{}{}: default: }
RequestRefreshCh(ch) == IF ch < RefreshChCap THEN ch + 1 ELSE ch

RequestRefresh ==
    /\ refreshCh' = RequestRefreshCh(refreshCh)
    /\ pendingReqs' = Min(pendingReqs + 1, MaxReq)
    /\ UNCHANGED <<cfg, stopped, instances, im, store, ring, pc, elapsed, rf, last, sup, agent, lk>>

\* variant: Stop deleting every config the manager lists
StopKeysAllHosted(inst, m) == {n \in Names : m[n] # Nil}

\* the keys Stop deletes: for key := range w.instances
StopKeys(inst, m) == inst

RECURSIVE DeleteAll(_, _, _)
DeleteAll(m, keys, fail) ==
    IF keys = <<>> THEN m
    ELSE DeleteAll(DeleteConfig(m, Head(keys), fail).im, Tail(keys), fail)

Stop ==
    IF stopped THEN
        /\ last' = Quiet("stopAgain", TRUE)
        /\ UNCHANGED <<cfg, stopped, refreshCh, instances, im, store, ring, pc, elapsed,
                       rf, pendingReqs, sup, agent, lk>>
    ELSE
        \E order \in Orders(StopKeys(instances, im)), fail \in FailSets :
            /\ stopped' = TRUE
            /\ im' = DeleteAll(im, order, fail)
            /\ instances' = {}
            /\ last' = [Quiet("stop", FALSE) EXCEPT
                          !.calls = [i \in 1..Len(order) |-> DeleteCall(order[i])],
                          !.fail = fail]
            /\ UNCHANGED <<cfg, refreshCh, store, ring, pc, elapsed, rf, pendingReqs, sup, agent, lk>>

\* ------------------------------------------------------------------------
\* configWatcher.run: the select loop
\* ------------------------------------------------------------------------
\* case <-ctx.Done(): return
RunExit ==
    /\ pc = "select" /\ stopped
    /\ pc' = "exited"
    /\ last' = Quiet("runExit", FALSE)
    /\ UNCHANGED <<cfg, stopped, refreshCh, instances, im, store, ring, elapsed, rf,
                   pendingReqs, sup, agent, lk>>

\* variant: a zero interval switches the reshard timer off
ReshardDueUnlessZero(e, c) == c.ReshardInterval > 0 /\ e >= c.ReshardInterval

\* nextReshard: the timer is ready once ReshardInterval has passed since lastReshard
ReshardDue(e, c) == e >= c.ReshardInterval

\* case <-w.nextReshard(lastReshard): RequestRefresh(); lastReshard = time.Now()
Tick ==
    /\ pc = "select" /\ ReshardDue(elapsed, cfg)
    /\ refreshCh' = RequestRefreshCh(refreshCh)
    /\ pendingReqs' = Min(pendingReqs + 1, MaxReq)
    /\ elapsed' = 0
    /\ last' = Quiet("tick", FALSE)
    /\ UNCHANGED <<cfg, stopped, instances, im, store, ring, pc, rf, sup, agent, lk>>

\* case ev := <-w.store.Watch(): w.handleEvents(ev.Events)
HandleWatch(evs, fail) ==
    /\ pc = "select"
    /\ LET r == HandleEvents(evs, stopped, instances, im, ring, fail)
       IN /\ instances' = r.inst
          /\ im' = r.im
          /\ last' = Observed("watch", evs, r, fail)
    /\ pc' = "handled"
    /\ UNCHANGED <<cfg, stopped, refreshCh, store, ring, elapsed, rf, pendingReqs, sup, agent, lk>>

\* the case body is over: the for loop comes back to the select, the results of
\* handleEvents (which run discards) are dropped
LoopIterate ==
    /\ pc = "handled"
    /\ pc' = "select"
    /\ last' = Quiet("loop", FALSE)
    /\ UNCHANGED <<cfg, stopped, refreshCh, instances, im, store, ring, elapsed, rf,
                   pendingReqs, sup, agent, lk>>

\* ------------------------------------------------------------------------
\* configWatcher.refresh
\* ------------------------------------------------------------------------
\* variant: the histogram label not following the error
SuccessLabelAlwaysOne(err) == "1"

\* the deferred function of refresh: success := "1"; if err != nil { success = "0" }
SuccessLabel(err) == IF err THEN "0" ELSE "1"

\* what a returning refresh leaves to observe: where it returned (at), whether its
\* handleEvents calls changed the tracked set or the manager (acted), and the labels it
\* observed on reshardDuration (obs)
RefreshResult(act, err, at) ==
    [Quiet(act, err) EXCEPT !.stable = rf.stable, !.at = at, !.acted = rf.acted,
                            !.obs = <<SuccessLabel(err)>>]

\* case <-w.refreshCh: the head of refresh up to the ctx.Err() pre-check
RefreshStart ==
    /\ pc = "select" /\ refreshCh > 0
    /\ refreshCh' = refreshCh - 1
    /\ pendingReqs' = 0
    /\ IF ~cfg.Enabled THEN
           /\ last' = Quiet("refreshSkipped", FALSE)
           /\ UNCHANGED <<pc, rf>>
       ELSE \E late \in (IF cfg.ReshardTimeout > 0 THEN BOOLEAN ELSE {FALSE}) :
           IF stopped \/ late THEN
               /\ last' = [Quiet("refreshFailed", TRUE) EXCEPT
                             !.at = "precheck", !.obs = <<SuccessLabel(TRUE)>>]
               /\ UNCHANGED <<pc, rf>>
           ELSE
               /\ pc' = "rf_all"
               /\ rf' = [RfIdle EXCEPT !.hasDeadline = cfg.ReshardTimeout > 0]
               /\ last' = Quiet("refreshStart", FALSE)
    /\ UNCHANGED <<cfg, stopped, instances, im, store, ring, elapsed, sup, agent, lk>>

CtxDone == stopped \/ rf.expired

\* store.All returns an error
RefreshAllErr ==
    /\ pc = "rf_all"
    /\ pc' = "select"
    /\ last' = RefreshResult("refreshFailed", TRUE, "all")
    /\ rf' = RfIdle
    /\ UNCHANGED <<cfg, stopped, refreshCh, instances, im, store, ring, elapsed,
                   pendingReqs, sup, agent, lk>>

\* store.All returns the channel of batches
RefreshAllOk ==
    /\ pc = "rf_all"
    /\ \E order \in Orders(StoreAll(store, ring)) :
         \E chunks \in Chunkings([i \in 1..Len(order) |->
                                    [Key |-> order[i], Config |-> store[order[i]]]]) :
            rf' = [rf EXCEPT !.batches = chunks, !.snap = Range(order)]
    /\ pc' = "rf_drain"
    /\ UNCHANGED <<cfg, stopped, refreshCh, instances, im, store, ring, elapsed, last,
                   pendingReqs, sup, agent, lk>>

\* Outer: case <-ctx.Done(): return ctx.Err()
RefreshDrainCtx ==
    /\ pc = "rf_drain" /\ CtxDone
    /\ pc' = "select"
    /\ last' = RefreshResult("refreshFailed", TRUE, "drain")
    /\ rf' = RfIdle
    /\ UNCHANGED <<cfg, stopped, refreshCh, instances, im, store, ring, elapsed,
                   pendingReqs, sup, agent, lk>>

\* Outer: case cfg, ok := <-configs with ok: one batch through handleEvents
RefreshDrain(fail) ==
    /\ pc = "rf_drain" /\ rf.batches # <<>>
    /\ LET evs == Head(rf.batches)
           r == HandleEvents(evs, stopped, instances, im, ring, fail)
       IN /\ instances' = r.inst
          /\ im' = r.im
          /\ rf' = [rf EXCEPT !.batches = Tail(@),
                              !.keys = @ \cup {evs[i].Key : i \in 1..Len(evs)},
                              !.acted = @ \/ r.inst # instances \/ r.im # im]
          /\ last' = Observed("drain", evs, r, fail)
    /\ UNCHANGED <<cfg, stopped, refreshCh, store, ring, pc, elapsed, pendingReqs, sup, agent, lk>>

\* variant: refresh without the detection of absent keys
DeletedNone(inst, keys) == {}

\* the tracked keys that did not appear in the snapshot
Deleted(inst, keys) == inst \ keys

\* Outer: the channel is closed; collect deleted under instanceMut
RefreshDeleted ==
    /\ pc = "rf_drain" /\ rf.batches = <<>>
    /\ \E order \in Orders(Deleted(instances, rf.keys)) :
          rf' = [rf EXCEPT !.deleted = order]
    /\ pc' = "rf_synth"
    /\ UNCHANGED <<cfg, stopped, refreshCh, instances, im, store, ring, elapsed, last,
                   pendingReqs, sup, agent, lk>>

\* w.handleEvent(WatchEvent{Key: key, Config: nil}) for the next deleted key
RefreshSynth(fail) ==
    /\ pc = "rf_synth" /\ rf.deleted # <<>>
    /\ LET evs == <<[Key |-> Head(rf.deleted), Config |-> Nil]>>
           r == HandleEvents(evs, stopped, instances, im, ring, fail)
       IN /\ instances' = r.inst
          /\ im' = r.im
          /\ rf' = [rf EXCEPT !.deleted = Tail(@),
                              !.acted = @ \/ r.inst # instances \/ r.im # im]
          /\ last' = Observed("synth", evs, r, fail)
    /\ UNCHANGED <<cfg, stopped, refreshCh, store, ring, pc, elapsed, pendingReqs, sup, agent, lk>>

\* return firstError (never set)
RefreshReturn ==
    /\ pc = "rf_synth" /\ rf.deleted = <<>>
    /\ pc' = "select"
    /\ last' = RefreshResult("refreshDone", FALSE, "end")
    /\ rf' = RfIdle
    /\ UNCHANGED <<cfg, stopped, refreshCh, instances, im, store, ring, elapsed,
                   pendingReqs, sup, agent, lk>>

\* ------------------------------------------------------------------------
\* Environment of the watcher
\* ------------------------------------------------------------------------
\* the deadline of context.WithTimeout(ctx, refreshTimeout) passes
DeadlineExpires ==
    /\ InRefresh /\ rf.hasDeadline /\ ~rf.expired
    /\ rf' = [rf EXCEPT !.expired = TRUE]
    /\ UNCHANGED <<cfg, stopped, refreshCh, instances, im, store, ring, pc, elapsed, last,
                   pendingReqs, sup, agent, lk>>

\* the clock advances
Advance ==
    /\ elapsed < MaxInterval
    /\ elapsed' = elapsed + 1
    /\ UNCHANGED <<cfg, stopped, refreshCh, instances, im, store, ring, pc, rf, last,
                   pendingReqs, sup, agent, lk>>

Disturbed == IF InRefresh THEN [rf EXCEPT !.stable = FALSE] ELSE rf

\* Put(key, cfg) or Delete(key) on the store by another client
StoreMutate(k, body) ==
    /\ body # store[k]
    /\ store' = [store EXCEPT ![k] = body]
    /\ rf' = Disturbed
    /\ last' = Quiet("env", FALSE)
    /\ UNCHANGED <<cfg, stopped, refreshCh, instances, im, ring, pc, elapsed,
                   pendingReqs, sup, agent, lk>>

\* the cluster view changes the answer of owns(k)
OracleFlip(k, res) ==
    /\ res # ring[k]
    /\ ring' = [ring EXCEPT ![k] = res]
    /\ rf' = Disturbed
    /\ last' = Quiet("env", FALSE)
    /\ UNCHANGED <<cfg, stopped, refreshCh, instances, im, store, pc, elapsed,
                   pendingReqs, sup, agent, lk>>

WatchBatches == SeqsUpTo(Events, MaxBatch) \ {<<>>}

Next ==
    \/ \E c \in Configs : ApplyConfig(c)
    \/ RequestRefresh
    \/ Stop
    \/ RunExit
    \/ Tick
    \/ \E evs \in WatchBatches, fail \in FailSets : HandleWatch(evs, fail)
    \/ LoopIterate
    \/ RefreshStart
    \/ RefreshAllErr
    \/ RefreshAllOk
    \/ RefreshDrainCtx
    \/ \E fail \in FailSets : RefreshDrain(fail)
    \/ RefreshDeleted
    \/ \E fail \in FailSets : RefreshSynth(fail)
    \/ RefreshReturn
    \/ DeadlineExpires
    \/ Advance
    \/ \E k \in Keys, body \in Bodies \cup {Nil} : StoreMutate(k, body)
    \/ \E k \in Keys, res \in OwnsResults : OracleFlip(k, res)

Spec == Init /\ [][Next]_vars

\* ------------------------------------------------------------------------
\* The watcher serving watch batches: handleEvents, Stop, a changing cluster view
\* ------------------------------------------------------------------------
ClusterCfg == [Enabled |-> TRUE, ReshardInterval |-> 0, ReshardTimeout |-> 0]

InitEvents == Init /\ cfg = ClusterCfg

NextEvents ==
    \/ \E evs \in WatchBatches, fail \in FailSets : HandleWatch(evs, fail)
    \/ LoopIterate
    \/ \E k \in Keys, res \in OwnsResults : OracleFlip(k, res)
    \/ Stop
    \/ RunExit

SpecEvents == InitEvents /\ [][NextEvents]_vars


\* ------------------------------------------------------------------------
\* The watcher serving refresh tickets against a changing store and cluster view
\* ------------------------------------------------------------------------
RefreshCfgs == {c \in Configs : c.ReshardInterval = 0 /\ c.ReshardTimeout = 0}

InitRefresh == Init /\ cfg \in RefreshCfgs

NextRefresh ==
    \/ RequestRefresh
    \/ Stop
    \/ RunExit
    \/ RefreshStart
    \/ RefreshAllErr
    \/ RefreshAllOk
    \/ RefreshDrainCtx
    \/ RefreshDrain({})
    \/ RefreshDeleted
    \/ RefreshSynth({})
    \/ RefreshReturn
    \/ \E k \in Keys, body \in Bodies \cup {Nil} : StoreMutate(k, body)
    \/ \E k \in Keys, res \in OwnsResults : OracleFlip(k, res)

SpecRefresh == InitRefresh /\ [][NextRefresh]_vars

\* ------------------------------------------------------------------------
\* The watcher's refresh tickets: requests, the reshard timer, the consuming loop
\* ------------------------------------------------------------------------
NextTicket ==
    \/ \E c \in Configs : ApplyConfig(c)
    \/ RequestRefresh
    \/ Stop
    \/ RunExit
    \/ Tick
    \/ Advance
    \/ RefreshStart
    \/ RefreshAllErr
    \/ RefreshAllOk
    \/ RefreshDrainCtx
    \/ RefreshDeleted
    \/ RefreshReturn
    \/ DeadlineExpires

SpecTicket == Init /\ [][NextTicket]_vars

\* ------------------------------------------------------------------------
\* The running watcher with a silent watch stream: only the reshard timer drives it
\* ------------------------------------------------------------------------
LiveCfgs == {c \in Configs : c.ReshardTimeout = 0}

LiveBodies == {"good", Nil}

LiveResults == {r \in OwnsResults : ~r.err}

InitLive == Init /\ cfg \in LiveCfgs

\* the body of refresh once it is past its pre-checks, the store answering
RefreshBody ==
    \/ RefreshAllOk
    \/ RefreshDrain({})
    \/ RefreshDeleted
    \/ RefreshSynth({})
    \/ RefreshReturn

NextLive ==
    \/ Tick
    \/ Advance
    \/ RefreshStart
    \/ RefreshBody
    \/ \E k \in Keys, body \in LiveBodies : StoreMutate(k, body)
    \/ \E k \in Keys, res \in LiveResults : OracleFlip(k, res)

\* the select picks among its ready cases at random, the code of a case runs on, and
\* the clock advances
SpecLive ==
    /\ InitLive /\ [][NextLive]_vars
    /\ WF_vars(Tick) /\ WF_vars(RefreshStart) /\ WF_vars(RefreshBody) /\ WF_vars(Advance)

\* ------------------------------------------------------------------------
\* The watcher called from outside before and after Stop
\* ------------------------------------------------------------------------
NextStopped ==
    \/ \E c \in Configs : ApplyConfig(c)
    \/ Stop
    \/ RunExit
    \/ \E evs \in WatchBatches, fail \in FailSets : HandleWatch(evs, fail)
    \/ LoopIterate
    \/ \E k \in Keys, res \in LiveResults : OracleFlip(k, res)

SpecStopped == Init /\ [][NextStopped]_vars

\* ------------------------------------------------------------------------
\* The watcher step by step: w.mut, w.instanceMut, the callbacks, the manager calls
\* ------------------------------------------------------------------------
\* A position names the call in progress; the step that leaves it is its return.
\*   run goroutine (pc): loop (nextReshard), select, he_lock, he_check, he_lock_inst,
\*     he_owns, he_delete, he_validate, he_apply, rf_all, rf_drain, rf_deleted, rf_synth,
\*     exited
\*   caller of Stop (lk.st.pc): idle, check, lock_inst, delete, unlock
InHandleEvents ==
    pc \in {"he_lock", "he_check", "he_lock_inst", "he_owns", "he_delete", "he_validate",
            "he_apply"}

\* the run goroutine enters handleEvents(evs); ret is where it goes on afterwards
EnterHandleEvents(evs, fail, ret) ==
    [lk EXCEPT !.he = [HeIdle EXCEPT !.evs = evs, !.fail = fail, !.ret = ret]]

\* the position after the current event of the range loop
AfterEvent(evs) == IF Len(evs) > 1 THEN "he_owns" ELSE "he_apply"

\* top of the for loop: nextReshard takes w.mut to read cfg.ReshardInterval
LkNextReshard ==
    /\ pc = "loop" /\ lk.mut = "none"
    /\ pc' = "select"
    /\ UNCHANGED <<cfg, stopped, refreshCh, instances, im, store, ring, elapsed, rf, last,
                   pendingReqs, sup, agent, lk>>

\* case <-ctx.Done(): return
LkRunExit ==
    /\ RunExit
    /\ pc # "loop"

\* case <-w.nextReshard(lastReshard)
LkTick ==
    /\ pc = "select" /\ ReshardDue(elapsed, cfg)
    /\ refreshCh' = RequestRefreshCh(refreshCh)
    /\ pendingReqs' = Min(pendingReqs + 1, MaxReq)
    /\ elapsed' = 0
    /\ pc' = "loop"
    /\ UNCHANGED <<last, cfg, stopped, instances, im, store, ring, rf, sup, agent, lk>>

\* case ev := <-w.store.Watch(): handleEvents is entered
LkWatch(evs, fail) ==
    /\ pc = "select"
    /\ pc' = "he_lock"
    /\ lk' = EnterHandleEvents(evs, fail, "loop")
    /\ UNCHANGED <<last, cfg, stopped, refreshCh, instances, im, store, ring, elapsed, rf,
                   pendingReqs, sup, agent>>

\* w.mut.Lock()
LkHeLock ==
    /\ pc = "he_lock" /\ lk.mut = "none"
    /\ lk' = [lk EXCEPT !.mut = "run"]
    /\ pc' = "he_check"
    /\ UNCHANGED <<cfg, stopped, refreshCh, instances, im, store, ring, elapsed, rf, last,
                   pendingReqs, sup, agent>>

\* variant: handleEvents without the test of w.stopped
LkHeCheckNever ==
    /\ pc = "he_check"
    /\ pc' = "he_lock_inst"
    /\ UNCHANGED <<cfg, stopped, refreshCh, instances, im, store, ring, elapsed, rf, last,
                   pendingReqs, sup, agent, lk>>

\* if w.stopped { return ... } with the deferred w.mut.Unlock()
LkHeCheck ==
    /\ pc = "he_check"
    /\ IF stopped THEN
           /\ lk' = [lk EXCEPT !.mut = "none", !.he = HeIdle]
           /\ pc' = lk.he.ret
       ELSE
           /\ pc' = "he_lock_inst"
           /\ UNCHANGED lk
    /\ UNCHANGED <<cfg, stopped, refreshCh, instances, im, store, ring, elapsed, rf, last,
                   pendingReqs, sup, agent>>

\* w.instanceMut.Lock()
LkHeLockInst ==
    /\ pc = "he_lock_inst" /\ lk.instanceMut = "none"
    /\ lk' = [lk EXCEPT !.instanceMut = "run"]
    /\ pc' = IF lk.he.evs = <<>> THEN "he_apply" ELSE "he_owns"
    /\ UNCHANGED <<cfg, stopped, refreshCh, instances, im, store, ring, elapsed, rf, last,
                   pendingReqs, sup, agent>>

\* owned, err := w.owns(ev.Key) returns; the switch picks its case
LkHeOwns ==
    /\ pc = "he_owns"
    /\ LET ev == Head(lk.he.evs)
           own == ring[ev.Key]
           isRunning == ev.Key \in instances
           isDeleted == ev.Config = Nil
       IN IF IsDeleteCase(isRunning, isDeleted, own.owned) THEN
              /\ pc' = "he_delete"
              /\ lk' = [lk EXCEPT !.he.own = own]
          ELSE IF IsApplyCase(isDeleted, own.owned) THEN
              /\ pc' = "he_validate"
              /\ lk' = [lk EXCEPT !.he.own = own]
          ELSE
              /\ pc' = AfterEvent(lk.he.evs)
              /\ lk' = [lk EXCEPT !.he.own = own, !.he.evs = Tail(@)]
    /\ UNCHANGED <<cfg, stopped, refreshCh, instances, im, store, ring, elapsed, rf, last,
                   pendingReqs, sup, agent>>

\* w.im.DeleteConfig(ev.Key) returns; delete(w.instances, ev.Key)
LkHeDelete ==
    /\ pc = "he_delete"
    /\ LET ev == Head(lk.he.evs)
       IN /\ im' = DeleteConfig(im, ev.Key, lk.he.fail).im
          /\ instances' = instances \ {ev.Key}
    /\ pc' = AfterEvent(lk.he.evs)
    /\ lk' = [lk EXCEPT !.he.evs = Tail(@)]
    /\ UNCHANGED <<cfg, stopped, refreshCh, store, ring, elapsed, rf, last, pendingReqs,
                   sup, agent>>

\* w.validate(ev.Config) returns; the config is appended and the key tracked
LkHeValidate ==
    /\ pc = "he_validate"
    /\ LET ev == Head(lk.he.evs)
       IN /\ instances' = instances \cup {ev.Key}
          /\ lk' = [lk EXCEPT !.he.owned = Append(@, ev), !.he.evs = Tail(@)]
    /\ pc' = AfterEvent(lk.he.evs)
    /\ UNCHANGED <<cfg, stopped, refreshCh, im, store, ring, elapsed, rf, last,
                   pendingReqs, sup, agent>>

\* w.im.ApplyConfigs(ownedConfigs) returns; return with both deferred unlocks
LkHeApply ==
    /\ pc = "he_apply"
    /\ im' = ApplyConfigs(im, lk.he.owned, lk.he.fail).im
    /\ pc' = lk.he.ret
    /\ lk' = [lk EXCEPT !.mut = "none", !.instanceMut = "none", !.he = HeIdle]
    /\ UNCHANGED <<cfg, stopped, refreshCh, instances, store, ring, elapsed, rf, last,
                   pendingReqs, sup, agent>>

\* case <-w.refreshCh: refresh reads cfg under w.mut, up to the ctx.Err() pre-check
LkRefreshStart ==
    /\ pc = "select" /\ refreshCh > 0 /\ lk.mut = "none"
    /\ refreshCh' = refreshCh - 1
    /\ pendingReqs' = 0
    /\ IF ~cfg.Enabled THEN
           /\ pc' = "loop"
           /\ UNCHANGED rf
       ELSE \E late \in (IF cfg.ReshardTimeout > 0 THEN BOOLEAN ELSE {FALSE}) :
           IF stopped \/ late THEN
               /\ pc' = "loop"
               /\ UNCHANGED rf
           ELSE
               /\ pc' = "rf_all"
               /\ rf' = [RfIdle EXCEPT !.hasDeadline = cfg.ReshardTimeout > 0]
    /\ UNCHANGED <<last, cfg, stopped, instances, im, store, ring, elapsed, sup, agent, lk>>

\* w.store.All(ctx, filter) returns
LkRefreshAll ==
    \/ RefreshAllOk
    \/ /\ pc = "rf_all"
       /\ pc' = "loop"
       /\ rf' = RfIdle
       /\ UNCHANGED <<last, cfg, stopped, refreshCh, instances, im, store, ring, elapsed,
                      pendingReqs, sup, agent, lk>>

\* Outer: case <-ctx.Done(): return ctx.Err()
LkDrainCtx ==
    /\ pc = "rf_drain" /\ CtxDone
    /\ pc' = "loop"
    /\ rf' = RfIdle
    /\ UNCHANGED <<last, cfg, stopped, refreshCh, instances, im, store, ring, elapsed,
                   pendingReqs, sup, agent, lk>>

\* Outer: case cfg, ok := <-configs with ok: handleEvents(events) is entered
LkDrain(fail) ==
    /\ pc = "rf_drain" /\ rf.batches # <<>>
    /\ LET evs == Head(rf.batches)
       IN /\ rf' = [rf EXCEPT !.batches = Tail(@),
                              !.keys = @ \cup {evs[i].Key : i \in 1..Len(evs)}]
          /\ lk' = EnterHandleEvents(evs, fail, "rf_drain")
    /\ pc' = "he_lock"
    /\ UNCHANGED <<cfg, stopped, refreshCh, instances, im, store, ring, elapsed, last,
                   pendingReqs, sup, agent>>

\* the channel is closed: w.instanceMut.Lock() before deleted is collected
LkDeletedLock ==
    /\ pc = "rf_drain" /\ rf.batches = <<>> /\ lk.instanceMut = "none"
    /\ lk' = [lk EXCEPT !.instanceMut = "run"]
    /\ pc' = "rf_deleted"
    /\ UNCHANGED <<cfg, stopped, refreshCh, instances, im, store, ring, elapsed, rf, last,
                   pendingReqs, sup, agent>>

\* deleted is collected from w.instances; w.instanceMut.Unlock()
LkDeleted ==
    /\ pc = "rf_deleted"
    /\ \E order \in Orders(Deleted(instances, rf.keys)) :
          rf' = [rf EXCEPT !.deleted = order]
    /\ lk' = [lk EXCEPT !.instanceMut = "none"]
    /\ pc' = "rf_synth"
    /\ UNCHANGED <<cfg, stopped, refreshCh, instances, im, store, ring, elapsed, last,
                   pendingReqs, sup, agent>>

\* w.handleEvent(WatchEvent{Key: key, Config: nil}) is entered
LkSynth(fail) ==
    /\ pc = "rf_synth" /\ rf.deleted # <<>>
    /\ lk' = EnterHandleEvents(<<[Key |-> Head(rf.deleted), Config |-> Nil]>>, fail,
                               "rf_synth")
    /\ rf' = [rf EXCEPT !.deleted = Tail(@)]
    /\ pc' = "he_lock"
    /\ UNCHANGED <<cfg, stopped, refreshCh, instances, im, store, ring, elapsed, last,
                   pendingReqs, sup, agent>>

\* return firstError
LkRefreshReturn ==
    /\ pc = "rf_synth" /\ rf.deleted = <<>>
    /\ pc' = "loop"
    /\ rf' = RfIdle
    /\ UNCHANGED <<last, cfg, stopped, refreshCh, instances, im, store, ring, elapsed,
                   pendingReqs, sup, agent, lk>>

\* ApplyConfig by any caller: its body runs under w.mut
LkApplyConfig(c) ==
    /\ lk.mut = "none"
    /\ ApplyConfig(c)

\* Stop: w.mut.Lock()
LkStopLock ==
    /\ lk.st.pc = "idle" /\ lk.mut = "none"
    /\ lk' = [lk EXCEPT !.mut = "stop", !.st.pc = "check"]
    /\ UNCHANGED <<cfg, stopped, refreshCh, instances, im, store, ring, pc, elapsed, rf,
                   last, pendingReqs, sup, agent>>

\* Stop: if w.stopped { return error }; w.stop(); w.stopped = true
LkStopCheck ==
    /\ lk.st.pc = "check"
    /\ IF stopped THEN
           /\ lk' = [lk EXCEPT !.mut = "none", !.st = StIdle]
           /\ UNCHANGED stopped
       ELSE
           /\ stopped' = TRUE
           /\ lk' = [lk EXCEPT !.st.pc = "lock_inst"]
    /\ UNCHANGED <<last, cfg, refreshCh, instances, im, store, ring, pc, elapsed, rf,
                   pendingReqs, sup, agent>>

\* Stop: w.instanceMut.Lock(); the range over w.instances starts
LkStopLockInst ==
    /\ lk.st.pc = "lock_inst" /\ lk.instanceMut = "none"
    /\ \E order \in Orders(StopKeys(instances, im)), fail \in {{}} :
         lk' = [lk EXCEPT !.instanceMut = "stop",
                          !.st = [pc |-> IF order = <<>> THEN "unlock" ELSE "delete",
                                  keys |-> order, fail |-> fail]]
    /\ UNCHANGED <<cfg, stopped, refreshCh, instances, im, store, ring, pc, elapsed, rf,
                   last, pendingReqs, sup, agent>>

\* Stop: w.im.DeleteConfig(key) returns
LkStopDelete ==
    /\ lk.st.pc = "delete"
    /\ im' = DeleteConfig(im, Head(lk.st.keys), lk.st.fail).im
    /\ lk' = [lk EXCEPT !.st.keys = Tail(@),
                        !.st.pc = IF Len(lk.st.keys) > 1 THEN "delete" ELSE "unlock"]
    /\ UNCHANGED <<cfg, stopped, refreshCh, instances, store, ring, pc, elapsed, rf,
                   last, pendingReqs, sup, agent>>

\* variant: Stop returning without the deferred w.instanceMut.Unlock()
LkStopReturnKeepsInstanceMut ==
    /\ lk.st.pc = "unlock"
    /\ instances' = {}
    /\ lk' = [lk EXCEPT !.mut = "none", !.st = StIdle]
    /\ UNCHANGED <<cfg, stopped, refreshCh, im, store, ring, pc, elapsed, rf,
                   last, pendingReqs, sup, agent>>

\* Stop: w.instances = make(...); return nil with both deferred unlocks
LkStopReturn ==
    /\ lk.st.pc = "unlock"
    /\ instances' = {}
    /\ lk' = [lk EXCEPT !.mut = "none", !.instanceMut = "none", !.st = StIdle]
    /\ UNCHANGED <<cfg, stopped, refreshCh, im, store, ring, pc, elapsed, rf,
                   last, pendingReqs, sup, agent>>

LockCfgs == {c \in Configs : c.ReshardInterval = 0 /\ c.ReshardTimeout = 0}

\* watch batches of the events that differ in the case they take
LockBatches == SeqsUpTo([Key : Keys, Config : LiveBodies], MaxBatch) \ {<<>>}

InitLocks == Init /\ cfg \in LockCfgs

NextLocks ==
    \/ LkNextReshard
    \/ LkRunExit
    \/ LkTick
    \/ \E evs \in LockBatches : LkWatch(evs, {})
    \/ LkHeLock
    \/ LkHeCheck
    \/ LkHeLockInst
    \/ LkHeOwns
    \/ LkHeDelete
    \/ LkHeValidate
    \/ LkHeApply
    \/ LkRefreshStart
    \/ LkRefreshAll
    \/ LkDrainCtx
    \/ LkDrain({})
    \/ LkDeletedLock
    \/ LkDeleted
    \/ LkSynth({})
    \/ LkRefreshReturn
    \/ RequestRefresh
    \/ \E c \in LockCfgs : LkApplyConfig(c)
    \/ LkStopLock
    \/ LkStopCheck
    \/ LkStopLockInst
    \/ LkStopDelete
    \/ LkStopReturn
    \/ \E k \in Keys, body \in LiveBodies : StoreMutate(k, body)
    \/ \E k \in Keys, res \in LiveResults : OracleFlip(k, res)

SpecLocks == InitLocks /\ [][NextLocks]_vars

\* ------------------------------------------------------------------------
\* Agent.spawnInstance: the supervisor of one instance
\* ------------------------------------------------------------------------
\* what inst.Run(ctx) returns: nil, context.Canceled, or any other error
RunResults == {"nil", "Canceled", "boom"}

\* variant: a nil return of Run taken for a clean stop
IsAbnormalErrorOnly(err) == err # "nil" /\ err # "Canceled"

\* if err == nil || err != context.Canceled
IsAbnormal(err) == err = "nil" \/ err # "Canceled"

\* inst, err := a.instanceFactory(...); if err != nil { return }
SupCreate(n, ok) ==
    /\ sup[n].pc = "create"
    /\ sup' = [sup EXCEPT ![n] = IF ok THEN [@ EXCEPT !.pc = "run", !.runs = 1]
                                       ELSE [@ EXCEPT !.pc = "failed"]]
    /\ UNCHANGED <<wvars, agent, lk>>

\* err = inst.Run(ctx) returns; the counter labeled c.Name, then the backoff or the break
SupRunReturn(n, err) ==
    /\ sup[n].pc = "run"
    /\ sup' = [sup EXCEPT ![n] = [@ EXCEPT
                 !.ret = err,
                 !.counted = IF err \in {"nil", "boom"} THEN @ + 1 ELSE @,
                 !.exits = IF IsAbnormal(err) THEN @ + 1 ELSE @,
                 !.pc = IF IsAbnormal(err) THEN "sleep" ELSE "done"]]
    /\ UNCHANGED <<wvars, agent, lk>>

\* time.Sleep(a.cfg.InstanceRestartBackoff) is over: the loop calls Run again
SupWake(n) ==
    /\ sup[n].pc = "sleep"
    /\ sup[n].runs < MaxRuns
    /\ sup' = [sup EXCEPT ![n] = [@ EXCEPT !.pc = "run", !.runs = @ + 1]]
    /\ UNCHANGED <<wvars, agent, lk>>

\* the context handed to spawnInstance is canceled
SupCancel(n) ==
    /\ sup[n].pc \in {"create", "run", "sleep"}
    /\ ~sup[n].canceled
    /\ sup' = [sup EXCEPT ![n] = [@ EXCEPT !.canceled = TRUE]]
    /\ UNCHANGED <<wvars, agent, lk>>

InitSup ==
    /\ InitWatcher /\ cfg = ClusterCfg
    /\ sup = [n \in SupNames |-> [SupIdle EXCEPT !.pc = "create"]]
    /\ agent = AgentIdle
    /\ lk = LkIdle

NextSup ==
    \/ \E n \in SupNames, ok \in BOOLEAN : SupCreate(n, ok)
    \/ \E n \in SupNames, err \in RunResults : SupRunReturn(n, err)
    \/ \E n \in SupNames : SupWake(n)
    \/ \E n \in SupNames : SupCancel(n)

SpecSup == InitSup /\ [][NextSup]_vars

\* ------------------------------------------------------------------------
\* The supervisor for ever: the counters stay at MaxRuns once they reach it
\* ------------------------------------------------------------------------
\* err = inst.Run(ctx) returns; Run returns context.Canceled only for a canceled ctx
SupRunReturnSat(n, err) ==
    /\ sup[n].pc = "run"
    /\ err = "Canceled" => sup[n].canceled
    /\ sup' = [sup EXCEPT ![n] = [@ EXCEPT
                 !.ret = err,
                 !.counted = IF err \in {"nil", "boom"} THEN Min(@ + 1, MaxRuns) ELSE @,
                 !.exits = IF IsAbnormal(err) THEN Min(@ + 1, MaxRuns) ELSE @,
                 !.pc = IF IsAbnormal(err) THEN "sleep" ELSE "done"]]
    /\ UNCHANGED <<wvars, agent, lk>>

\* time.Sleep(a.cfg.InstanceRestartBackoff) is over: the loop calls Run again
SupWakeSat(n) ==
    /\ sup[n].pc = "sleep"
    /\ sup' = [sup EXCEPT ![n] = [@ EXCEPT !.pc = "run", !.runs = Min(@ + 1, MaxRuns)]]
    /\ UNCHANGED <<wvars, agent, lk>>

\* Run, its context canceled, returns
CanceledRunReturns(n) ==
    sup[n].canceled /\ \E err \in RunResults : SupRunReturnSat(n, err)

NextSupLive ==
    \/ \E n \in SupNames, ok \in BOOLEAN : SupCreate(n, ok)
    \/ \E n \in SupNames, err \in RunResults : SupRunReturnSat(n, err)
    \/ \E n \in SupNames : SupWakeSat(n)
    \/ \E n \in SupNames : SupCancel(n)

\* the factory returns, the sleep ends, and a Run whose context is canceled returns
SpecSupLive ==
    /\ InitSup /\ [][NextSupLive]_vars
    /\ \A n \in SupNames : /\ WF_vars(\E ok \in BOOLEAN : SupCreate(n, ok))
                           /\ WF_vars(SupWakeSat(n))
                           /\ WF_vars(CanceledRunReturns(n))

\* ------------------------------------------------------------------------
\* The Agent facade: Config.Validate, newAgent, Agent.Stop
\* ------------------------------------------------------------------------
\* the loop of Config.Validate over c.Configs from position i, usedNames so far
RECURSIVE ValidateConfigs(_, _, _)
ValidateConfigs(cfgs, i, usedNames) ==
    IF i > Len(cfgs) THEN "nil"
    ELSE IF cfgs[i].Name \in usedNames THEN "duplicate name"
    ELSE IF ~cfgs[i].Valid THEN "invalid instance"
    ELSE ValidateConfigs(cfgs, i + 1, usedNames \cup {cfgs[i].Name})

\* variant: Validate without the check of the instance names
ConfigValidateAnyNames(c) ==
    IF c.WALDir = "" THEN "no wal_directory"
    ELSE IF c.Enabled /\ Len(c.Configs) > 0 THEN "configs with scraping_service"
    ELSE "nil"

\* Config.Validate: the error it returns, "nil" for none
ConfigValidate(c) ==
    IF c.WALDir = "" THEN "no wal_directory"
    ELSE IF c.Enabled /\ Len(c.Configs) > 0 THEN "configs with scraping_service"
    ELSE ValidateConfigs(c.Configs, 1, {})

\* newAgent(cfg, logger, fact); haOk = ha.New succeeds
NewAgent(c, haOk) ==
    /\ agent.pc = "init"
    /\ agent' =
         IF ConfigValidate(c) # "nil" THEN
             [agent EXCEPT !.pc = "failed", !.in = c, !.err = "config"]
         ELSE LET applied == [i \in 1..Len(c.Configs) |-> c.Configs[i].Name]
              IN IF c.Enabled /\ ~haOk THEN
                     [agent EXCEPT !.pc = "failed", !.in = c, !.err = "ha",
                                   !.cm = "up", !.applied = applied]
                 ELSE
                     [agent EXCEPT !.pc = "running", !.in = c, !.cm = "up",
                                   !.applied = applied,
                                   !.ha = IF c.Enabled THEN "up" ELSE "none"]
    /\ UNCHANGED <<wvars, sup, lk>>

\* variant: Stop giving up when the scraping service fails to stop
AfterHaStopReturn(failed) == IF failed THEN "stopped" ELSE "stop_cm"

\* Agent.Stop after a.ha.Stop() returned: the error is logged, a.cm.Stop() comes next
AfterHaStop(failed) == "stop_cm"

\* Agent.Stop is called: if a.ha != nil, a.ha.Stop() is the first call
AgentStop ==
    /\ agent.pc = "running"
    /\ agent' = [agent EXCEPT !.pc = IF agent.ha # "none" THEN "stop_ha" ELSE "stop_cm"]
    /\ UNCHANGED <<wvars, sup, lk>>

\* a.ha.Stop() returns, with or without an error
AgentStopHa(failed) ==
    /\ agent.pc = "stop_ha"
    /\ agent' = [agent EXCEPT !.pc = AfterHaStop(failed),
                              !.ha = IF failed THEN "stop_failed" ELSE "stopped",
                              !.log = Append(@, "ha")]
    /\ UNCHANGED <<wvars, sup, lk>>

\* a.cm.Stop() returns
AgentStopCm ==
    /\ agent.pc = "stop_cm"
    /\ agent' = [agent EXCEPT !.pc = "stopped", !.cm = "stopped", !.log = Append(@, "cm")]
    /\ UNCHANGED <<wvars, sup, lk>>

NextAgent ==
    \/ \E c \in AgentInputs, haOk \in BOOLEAN : NewAgent(c, haOk)
    \/ AgentStop
    \/ \E failed \in BOOLEAN : AgentStopHa(failed)
    \/ AgentStopCm

InitAgent == Init /\ cfg = ClusterCfg

SpecAgent == InitAgent /\ [][NextAgent]_vars

\* ------------------------------------------------------------------------
\* Properties of handleEvents and Stop
\* ------------------------------------------------------------------------
RECURSIVE CallsWithOp(_, _)
CallsWithOp(calls, op) ==
    IF calls = <<>> THEN <<>>
    ELSE (IF Head(calls).op = op THEN <<Head(calls)>> ELSE <<>>)
         \o CallsWithOp(Tail(calls), op)

ApplyCallsOf(calls) == CallsWithOp(calls, "ApplyConfigs")
DeleteCallsOf(calls) == CallsWithOp(calls, "DeleteConfig")

\* a handleEvents call has just returned on a watcher that is not stopped
Handled == last.act \in {"watch", "drain", "synth"} /\ ~stopped

BatchKeys(evs) == {evs[i].Key : i \in 1..Len(evs)}
LastEventFor(k, evs) ==
    evs[CHOOSE i \in 1..Len(evs) : evs[i].Key = k /\ \A j \in (i + 1)..Len(evs) : evs[j].Key # k]

\* the manager calls of a handleEvents call that concern key k
Touches(c, k) ==
    \/ c.op = "DeleteConfig" /\ c.key = k
    \/ c.op = "ApplyConfigs" /\ \E i \in 1..Len(c.cfgs) : c.cfgs[i].Key = k

RECURSIVE CallsTouching(_, _)
CallsTouching(calls, k) ==
    IF calls = <<>> THEN <<>>
    ELSE (IF Touches(Head(calls), k) THEN <<Head(calls)>> ELSE <<>>)
         \o CallsTouching(Tail(calls), k)

\* C2 (as claimed): when a batch holds several events of one key, they take effect in
\* arrival order and the last-arrived one decides: if it is a put of an owned key, the key
\* ends tracked and the last manager call about the key applies that config; otherwise
\* (a delete, or a put of a key not owned) the key ends untracked and the last manager
\* call about the key, if any, is its DeleteConfig.
C2LastEventDecides ==
    (last.act = "watch" /\ ~stopped)
    => \A k \in BatchKeys(last.evs) :
         LET e == LastEventFor(k, last.evs)
             t == CallsTouching(last.calls, k)
         IN IF e.Config # Nil /\ ring[k].owned
            THEN /\ k \in instances
                 /\ t # <<>>
                 /\ t[Len(t)].op = "ApplyConfigs"
                 /\ LastEventFor(k, t[Len(t)].cfgs) = e
            ELSE /\ k \notin instances
                 /\ t # <<>> => t[Len(t)].op = "DeleteConfig"

\* C3 (as claimed): an event whose owns call returns an error is never applied nor
\* tracked by handleEvents, whatever boolean comes with the error, and the filter of
\* refresh rejects its key.
C3ErrorNeverOwned ==
    /\ \A k \in Keys : ring[k].err => ~RefreshFilter(ring, k)
    /\ Handled =>
         \A i \in 1..Len(last.evs) :
            ring[last.evs[i].Key].err
            => /\ \A j \in 1..Len(last.calls) : last.evs[i] \notin Range(last.calls[j].cfgs)
               /\ last.evs[i].Key \notin instances

\* C4 (as claimed): an owned, non-deleted event whose config fails validate is recorded
\* as failed, its config is not passed to ApplyConfigs and its key is not added to the
\* tracked set (unless a valid put of the same key in the batch tracks it).
InvalidOwnedPut(ev, orc) == ev.Config # Nil /\ orc[ev.Key].owned /\ ~Validate(ev.Config)
ValidOwnedPut(ev, orc) == ev.Config # Nil /\ orc[ev.Key].owned /\ Validate(ev.Config)

C4InvalidSkipped ==
    [][(last'.act = "watch" /\ ~stopped)
        => \A i \in 1..Len(last'.evs) :
             LET ev == last'.evs[i]
             IN InvalidOwnedPut(ev, ring)
                => /\ ev \in Range(last'.failed)
                   /\ \A j \in 1..Len(last'.calls) : ev \notin Range(last'.calls[j].cfgs)
                   /\ (ev.Key \in instances' /\ ev.Key \notin instances)
                        => \E h \in 1..Len(last'.evs) :
                              last'.evs[h].Key = ev.Key /\ ValidOwnedPut(last'.evs[h], ring)]_vars

\* C5: every handleEvents call on a watcher that is not stopped makes exactly one
\* ApplyConfigs call, and its argument is exactly the configs of the batch's events that
\* are not deletions and for which owns returned true, in arrival order.
RECURSIVE OwnedPuts(_, _)
OwnedPuts(evs, orc) ==
    IF evs = <<>> THEN <<>>
    ELSE (IF Head(evs).Config # Nil /\ orc[Head(evs).Key].owned THEN <<Head(evs)>> ELSE <<>>)
         \o OwnedPuts(Tail(evs), orc)

C5OneApplyPerBatch ==
    Handled => ApplyCallsOf(last.calls) = <<ApplyCall(OwnedPuts(last.evs, ring))>>

C5Witness ==
    /\ Handled /\ last.act = "watch" /\ Len(last.evs) >= 2
    /\ Len(DeleteCallsOf(last.calls)) >= 1
    /\ Len(OwnedPuts(last.evs, ring)) = 1

\* C10: the first Stop calls DeleteConfig once for every key tracked at that moment and
\* for no other key, leaves what the manager holds under the other names untouched, and
\* leaves the tracked set empty.
C10StopDeletesOwn ==
    [][(~stopped /\ stopped')
        => /\ \A i \in 1..Len(last'.calls) : last'.calls[i].op = "DeleteConfig"
           /\ {last'.calls[i].key : i \in 1..Len(last'.calls)} = instances
           /\ Len(last'.calls) = Cardinality(instances)
           /\ \A n \in Names \ instances : im'[n] = im[n]
           /\ instances' = {}]_vars

C10Witness ==
    /\ last.act = "stop" /\ Len(last.calls) = 1
    /\ im[ExtKey] # Nil
    /\ \E k \in Keys : im[k] # Nil /\ \A i \in 1..Len(last.calls) : last.calls[i].key # k


\* ------------------------------------------------------------------------
\* Properties of refresh
\* ------------------------------------------------------------------------
\* the store keys this replica owns: owns(k) = (true, nil)
OwnedStoreKeys == {k \in Keys : store[k] # Nil /\ ring[k].owned /\ ~ring[k].err}

\* a call of refresh has just returned nil, the store and the cluster view having stayed
\* as they were during the call
RefreshedStable == last.act \in {"refreshDone", "refreshSkipped"} /\ ~last.err /\ last.stable

\* C1 (as claimed): after one refresh that returns without error while the ownership
\* oracle and the store stay unchanged, the tracked set is exactly the set of store keys
\* this replica owns.
C1ConvergesAfterRefresh == RefreshedStable => instances = OwnedStoreKeys

\* C1 (amended): the same for a refresh that ran with clustering enabled (it is not
\* skipped) on a watcher that is not stopped by the time it returns; the manager then
\* holds the store's config of every owned key and none for the other keys.
C1EnabledRefreshConverges ==
    (last.act = "refreshDone" /\ last.stable /\ ~stopped)
    => /\ instances = OwnedStoreKeys
       /\ \A k \in Keys : im[k] = IF k \in OwnedStoreKeys THEN store[k] ELSE Nil

C1Witness ==
    /\ last.act = "refreshDone" /\ last.stable /\ ~stopped
    /\ \E k \in Keys : k \in instances /\ store[k] = "bad"
    /\ \E k \in Keys : k \notin instances /\ store[k] # Nil


\* ------------------------------------------------------------------------
\* Properties of the refresh ticket
\* ------------------------------------------------------------------------
\* C8: RequestRefresh never blocks, at most one ticket is pending, and any number N >= 1
\* of RequestRefresh calls made since the loop last took the ticket leave exactly one
\* ticket, which one execution of refresh consumes (none is left once it is taken).
C8RefreshCoalesced ==
    /\ ENABLED RequestRefresh
    /\ refreshCh <= RefreshChCap
    /\ refreshCh = IF pendingReqs >= 1 THEN 1 ELSE 0

C8Witness == pendingReqs >= 2 /\ refreshCh = 1 /\ pc # "select"

\* ------------------------------------------------------------------------
\* Properties of the supervisor
\* ------------------------------------------------------------------------
\* C6: every return of Run with nil or with an error other than context.Canceled adds
\* exactly one to the abnormal-exits counter of that instance name (and nothing to the
\* others) and leads to the backoff sleep, whose end is another invocation of Run; the
\* counter always equals the number of such returns.
C6AbnormalExitsCounted ==
    /\ [](\A n \in SupNames : sup[n].exits = sup[n].counted)
    /\ [][\A n \in SupNames :
            (sup[n].pc = "run" /\ sup'[n].pc # "run" /\ sup'[n].ret \in {"nil", "boom"})
            => /\ sup'[n].exits = sup[n].exits + 1
               /\ sup'[n].pc = "sleep"
               /\ \A m \in SupNames \ {n} : sup'[m].exits = sup[m].exits]_vars
    /\ [][\A n \in SupNames :
            (sup[n].pc = "sleep" /\ sup'[n].pc # "sleep")
            => /\ sup'[n].pc = "run"
               /\ sup'[n].runs = sup[n].runs + 1
               /\ sup'[n].exits = sup[n].exits]_vars

C6Witness ==
    \E n \in SupNames :
        /\ sup[n].exits >= 3 /\ sup[n].pc = "run" /\ sup[n].ret = "nil" /\ ~sup[n].canceled
        /\ \E m \in SupNames : sup[m].exits = 1

\* C7 (as claimed): whenever Run returns after its context was canceled, whatever it
\* returns, the counter is not incremented and the supervisor ends (Run is not invoked
\* again).
C7CancelIsClean ==
    [][\A n \in SupNames :
         (sup[n].pc = "run" /\ sup'[n].pc # "run" /\ sup[n].canceled)
         => sup'[n].exits = sup[n].exits /\ sup'[n].pc = "done"]_vars

\* ------------------------------------------------------------------------
\* Properties of the reshard timer
\* ------------------------------------------------------------------------
Converged ==
    /\ instances = OwnedStoreKeys
    /\ \A k \in Keys : im[k] = IF k \in OwnedStoreKeys THEN store[k] ELSE Nil

\* no step of the store or of the cluster view since the last step of the watcher
EnvQuiet == last.act # "env"

\* every firing of the timer resets the baseline and leaves a ticket pending, and the
\* timer fires again and again
TimerKeepsFiring ==
    /\ [](last.act = "tick" => refreshCh = RefreshChCap)
    /\ [][Tick => elapsed' = 0]_vars
    /\ []<>(last.act = "tick")

StoppedCalls == {"stopAgain", "applyConfig", "watch"}

\* C11 (as claimed): on a stopped watcher every further Stop, every ApplyConfig (also of
\* a config equal to the current one) and every handleEvents returns an error, performs
\* no manager call and leaves the configuration, the tracked set and the manager as
\* they were.
C11StoppedCallsFail ==
    [][(stopped /\ last'.act \in StoppedCalls)
       => /\ last'.err
          /\ last'.calls = <<>>
          /\ cfg' = cfg /\ instances' = instances /\ im' = im]_vars


\* ------------------------------------------------------------------------
\* Properties of failures reported by the manager
\* ------------------------------------------------------------------------
\* the keys whose config the ApplyConfigs call of the last handleEvents rejected (the
\* instance could not be created)
RejectedKeys ==
    {k \in Keys : k \in last.fail /\ \E i \in 1..Len(last.calls) :
                     /\ last.calls[i].op = "ApplyConfigs"
                     /\ \E j \in 1..Len(last.calls[i].cfgs) : last.calls[i].cfgs[j].Key = k}

\* C12 (as claimed, the clustered part): a key whose instance could not be created is
\* reported as failed by handleEvents and is not in the watcher's tracked set.
C12FailedCreateUntracked ==
    Handled => /\ RejectedKeys # {} => last.err
               /\ \A k \in RejectedKeys : k \notin instances


\* ------------------------------------------------------------------------
\* Properties of the Agent facade
\* ------------------------------------------------------------------------
\* C13: Agent.Stop stops the scraping service, when there is one, to completion before
\* it stops the manager, it stops the manager also when stopping the service failed, and
\* without a service it stops only the manager.
C13WatcherBeforeManager ==
    /\ agent.cm = "stopped" /\ agent.ha # "none" => agent.ha \in {"stopped", "stop_failed"}
    /\ agent.pc = "stop_cm" /\ agent.ha # "none" => agent.log = <<"ha">>
    /\ agent.pc = "stopped"
         => /\ agent.cm = "stopped"
            /\ agent.log = IF agent.ha = "none" THEN <<"cm">> ELSE <<"ha", "cm">>

C13Witness ==
    agent.pc = "stopped" /\ agent.ha = "stop_failed" /\ agent.cm = "stopped"

\* the configs the claim says newAgent refuses
HasDuplicateNames(cfgs) ==
    \E i, j \in 1..Len(cfgs) : i # j /\ cfgs[i].Name = cfgs[j].Name

RefusedInput(c) ==
    \/ c.WALDir = ""
    \/ HasDuplicateNames(c.Configs)
    \/ c.Enabled /\ Len(c.Configs) > 0

\* C14: newAgent on a config with an empty WAL directory, with two static configs of
\* one name, or with a static config and clustering enabled returns a configuration
\* error, having created no manager, applied no config and started nothing.
C14ValidationFailsFast ==
    (agent.pc # "init" /\ RefusedInput(agent.in))
    => /\ agent.pc = "failed" /\ agent.err = "config"
       /\ agent.cm = "none" /\ agent.applied = <<>> /\ agent.ha = "none"

C14Witness ==
    /\ agent.pc = "failed" /\ agent.err = "config"
    /\ agent.in.WALDir # "" /\ ~agent.in.Enabled
    /\ HasDuplicateNames(agent.in.Configs)
    /\ \A i \in 1..Len(agent.in.Configs) : agent.in.Configs[i].Valid


\* ------------------------------------------------------------------------
\* Properties of the watcher's locking
\* ------------------------------------------------------------------------
\* the run goroutine is inside a callback: owns or validate called by handleEvents, the
\* filter (owns) called by store.All for refresh
InCallback == pc \in {"he_owns", "he_validate", "rf_all"}

\* C15 (as claimed): while an owns or validate callback runs, the goroutine that called
\* it holds neither w.mut nor w.instanceMut.
C15NoLockInCallbacks ==
    InCallback => lk.mut # "run" /\ lk.instanceMut # "run"

\* C18 (as claimed): while Manager.ApplyConfigs, Manager.DeleteConfig or store.All is in
\* progress, the watcher operation that called it does not hold w.mut.
C18NoConfigMutexDuringIO ==
    /\ pc \in {"he_delete", "he_apply", "rf_all"} => lk.mut # "run"
    /\ lk.st.pc = "delete" => lk.mut # "stop"


\* ------------------------------------------------------------------------
\* Properties relating the tracked set and the manager
\* ------------------------------------------------------------------------
\* the store keys the manager holds a config for
ConfiguredKeys == {k \in Keys : im[k] # Nil}

\* C16 (as claimed): after every completed handleEvents or Stop of the watcher, the
\* tracked set is the set of keys the manager holds a config for, also when a manager
\* call of the batch reported a failure.
C16TrackedEqualsConfigured ==
    last.act \in {"watch", "drain", "synth", "stop"} => instances = ConfiguredKeys


\* ------------------------------------------------------------------------
\* Refreshes under a deadline: clustering enabled, ReshardTimeout set or not
\* ------------------------------------------------------------------------
DeadlineCfgs == {c \in Configs : c.Enabled /\ c.ReshardInterval = 0}

InitDeadline == Init /\ cfg \in DeadlineCfgs

NextDeadline ==
    \/ RequestRefresh
    \/ Stop
    \/ RunExit
    \/ RefreshStart
    \/ RefreshAllErr
    \/ RefreshAllOk
    \/ RefreshDrainCtx
    \/ RefreshDrain({})
    \/ RefreshDeleted
    \/ \E fail \in FailSets : RefreshSynth(fail)
    \/ RefreshReturn
    \/ DeadlineExpires
    \/ \E k \in Keys, body \in LiveBodies : StoreMutate(k, body)
    \/ \E k \in Keys, res \in LiveResults : OracleFlip(k, res)

SpecDeadline == InitDeadline /\ [][NextDeadline]_vars

\* ------------------------------------------------------------------------
\* Properties of a failing refresh
\* ------------------------------------------------------------------------
RefreshFailed == last.act = "refreshFailed"

\* C17 (as claimed): a refresh, clustering enabled, that returns an error (at the
\* pre-check, from store.All, or while draining) has changed neither the tracked set nor
\* the manager, has not called store.All if it failed at the pre-check, and has observed
\* exactly once, with success="0"; one that returns nil has observed exactly once, with
\* success="1".
C17FailedRefreshNoEffect ==
    /\ RefreshFailed => /\ ~last.acted
                        /\ last.at # "precheck" \/ pc # "rf_all"
                        /\ last.obs = <<"0">>
    /\ last.act = "refreshDone" => last.obs = <<"1">>

\* C17 (amended): the same, save that only a refresh failing at the pre-check or on the
\* error of store.All is free of effects: one that fails while draining has changed
\* what the batches it had handled made it change.
C17FailedRefreshLabeled ==
    /\ RefreshFailed => /\ last.at \in {"precheck", "all", "drain"}
                        /\ last.at \in {"precheck", "all"} => ~last.acted
                        /\ last.at # "precheck" \/ pc # "rf_all"
                        /\ last.obs = <<"0">>
    /\ last.act = "refreshDone" => last.obs = <<"1">> /\ ~last.err

C17Witness ==
    /\ RefreshFailed /\ last.at = "drain" /\ last.acted /\ last.obs = <<"0">>
    /\ ~stopped /\ instances # {}


\* ------------------------------------------------------------------------
\* Properties of the synthesized deletions of refresh
\* ------------------------------------------------------------------------
\* refresh leaves its drain loop, the channel of store.All being closed
DrainFinishes == pc = "rf_drain" /\ pc' = "rf_synth"

\* refresh hands the next synthesized deletion to handleEvent
SynthStep == pc = "rf_synth" /\ rf.deleted # <<>> /\ rf'.deleted = Tail(rf.deleted)

\* C19: a refresh that drains the whole snapshot synthesizes a deletion for exactly the
\* keys tracked when the drain finished that did not appear in the snapshot, each once;
\* on a watcher that is not stopped each of them gets one DeleteConfig call (followed by
\* the ApplyConfigs of no config), which removes it from the manager unless the manager
\* fails, and is untracked, nothing else being touched by this step and no key of the snapshot being deleted by it; when such a
\* refresh returns, every tracked key appeared in the snapshot.
C19RefreshDetectsAbsence ==
    [][/\ DrainFinishes => /\ Range(rf'.deleted) = instances \ rf.snap
                           /\ Len(rf'.deleted) = Cardinality(instances \ rf.snap)
       /\ (SynthStep /\ ~stopped)
            => LET k == Head(rf.deleted)
               IN /\ k \in instances /\ k \notin rf.snap
                  /\ last'.calls = <<DeleteCall(k), ApplyCall(<<>>)>>
                  /\ instances' = instances \ {k}
                  /\ k \notin last'.fail => im'[k] = Nil
                  /\ \A n \in Names \ {k} : im'[n] = im[n]
       /\ (pc = "rf_synth" /\ pc' = "select" /\ ~stopped) => instances' \subseteq rf.snap
      ]_vars

\* a key whose config left the store while this replica still owns it is deleted by the
\* synthesized event
C19Witness ==
    /\ last.act = "synth" /\ ~stopped /\ ~last.err
    /\ \E k \in Keys : /\ last.calls = <<DeleteCall(k), ApplyCall(<<>>)>>
                       /\ store[k] = Nil /\ ring[k].owned /\ ~ring[k].err
                       /\ im[k] = Nil /\ k \notin instances
    /\ instances # {}


\* ------------------------------------------------------------------------
\* Properties of Stop racing with the run loop
\* ------------------------------------------------------------------------
\* the run goroutine is in handleEvents past its test of w.stopped
PastStoppedCheck ==
    pc \in {"he_lock_inst", "he_owns", "he_delete", "he_validate", "he_apply"}

\* Stop is between its w.stopped = true and its return
InStop == lk.st.pc \in {"lock_inst", "delete", "unlock"}

\* C20: from the moment Stop has set w.stopped (which precedes its first DeleteConfig),
\* the run goroutine is never in handleEvents past the test of w.stopped, so it calls
\* neither ApplyConfigs nor DeleteConfig; the manager changes only by the DeleteConfig
\* calls of Stop; no key is added to the tracked set; and the tracked set is empty once
\* Stop has returned, whatever the run loop was doing or does next.
C20NoApplyAfterStop ==
    [][/\ stopped' => ~PastStoppedCheck'
       /\ stopped => instances' \subseteq instances
       /\ (stopped /\ im' # im) => lk.st.pc = "delete"
       /\ (stopped' /\ ~InStop') => instances' = {}
      ]_vars

\* Stop has returned while a refresh was draining; the next batch, with a config this
\* replica owns, is in handleEvents at the test of w.stopped
C20Witness ==
    /\ stopped /\ lk.st.pc = "idle" /\ instances = {}
    /\ pc = "he_check" /\ lk.he.ret = "rf_drain" /\ lk.he.evs # <<>>
    /\ LET ev == Head(lk.he.evs)
       IN ev.Config # Nil /\ ring[ev.Key].owned /\ ~ring[ev.Key].err
    /\ \E k \in Keys : im[k] = Nil /\ k \in rf.keys


\* ------------------------------------------------------------------------
\* Properties of the watcher's locking
\* ------------------------------------------------------------------------
\* the steps of the run goroutine, and of a Stop call that has taken w.mut
RunStep ==
    \/ LkNextReshard
    \/ LkRunExit
    \/ LkTick
    \/ \E evs \in LockBatches : LkWatch(evs, {})
    \/ LkHeLock
    \/ LkHeCheck
    \/ LkHeLockInst
    \/ LkHeOwns
    \/ LkHeDelete
    \/ LkHeValidate
    \/ LkHeApply
    \/ LkRefreshStart
    \/ LkRefreshAll
    \/ LkDrainCtx
    \/ LkDrain({})
    \/ LkDeletedLock
    \/ LkDeleted
    \/ LkSynth({})
    \/ LkRefreshReturn

StopStep == LkStopCheck \/ LkStopLockInst \/ LkStopDelete \/ LkStopReturn

\* the participant holding a lock can take a step
CanStep(holder) == IF holder = "run" THEN ENABLED RunStep ELSE ENABLED StopStep

\* the participant is where its next lock operation is w.mut.Lock()
RunTakesMutNext == pc \in {"loop", "select", "he_lock"}
StopTakesMutNext == lk.st.pc = "idle"

\* C21: w.mut is always taken before w.instanceMut and never while holding it (who is
\* about to lock w.mut holds no w.instanceMut; outside the collection of deleted keys in
\* refresh, which takes w.instanceMut alone, the holder of w.instanceMut holds w.mut);
\* the holder of w.instanceMut can always take a step, and the holder of w.mut can take
\* a step or waits for w.instanceMut whose holder can; so in no state are the run
\* goroutine and the callers of Stop, ApplyConfig and RequestRefresh all blocked, and
\* RequestRefresh never blocks.
C21NoDeadlock ==
    /\ RunTakesMutNext => lk.instanceMut # "run"
    /\ StopTakesMutNext => lk.instanceMut # "stop"
    /\ (lk.instanceMut = "run" /\ pc # "rf_deleted") => lk.mut = "run"
    /\ lk.instanceMut = "stop" => lk.mut = "stop"
    /\ lk.instanceMut # "none" => CanStep(lk.instanceMut)
    /\ lk.mut # "none" =>
          \/ CanStep(lk.mut)
          \/ lk.instanceMut \notin {"none", lk.mut} /\ CanStep(lk.instanceMut)
    /\ pc # "exited" => ENABLED RunStep \/ ENABLED StopStep
    /\ ENABLED RequestRefresh

\* Stop holds w.mut and waits for w.instanceMut, which refresh holds while it collects
\* the deleted keys
C21Witness ==
    /\ lk.mut = "stop" /\ lk.st.pc = "lock_inst"
    /\ lk.instanceMut = "run" /\ pc = "rf_deleted"
    /\ instances # {}
    /\ ~ENABLED StopStep /\ ENABLED RunStep


\* ------------------------------------------------------------------------
\* Properties of the supervisor's termination
\* ------------------------------------------------------------------------
Supervising(n) == sup[n].pc \in {"run", "sleep"}

\* C22 (as claimed): the supervisor of a created instance leaves its loop only with its
\* context canceled, and once the context is canceled it eventually returns, whatever
\* Run returns and also when the cancellation comes during the backoff sleep.
C22SupervisorTerminates ==
    /\ [][\A n \in SupNames :
            (Supervising(n) /\ sup'[n].pc = "done") => sup[n].canceled]_vars
    /\ \A n \in SupNames :
            (Supervising(n) /\ sup[n].canceled) ~> (sup[n].pc = "done")

====
